---- MODULE Spec2Model ----
(***************************************************************************)
(* A model of the cancel crate's Token (src/src/lib.rs): an AtomicBool     *)
(* `canceled` and an Option<Instant> `deadline`, shared by the threads of  *)
(* tests::threads, with every method split at its atomic accesses and its  *)
(* clock read.  The AtomicBool is a single memory cell: a load returns the *)
(* value of the latest store to it.                                        *)
(***************************************************************************)
EXTENDS Integers, FiniteSets, TLC

\* Bounds of the model.
MaxClock == 2
MaxDuration == 1
MaxCancels == 2
MaxLatches == 3

\* The threads sharing the token (tests::threads: the test thread and the
\* one it spawns).
Threads == {"main", "worker"}

Instants == 0..MaxClock
Durations == 0..MaxDuration

VARIABLES
  canceled,   \* Token.canceled: the AtomicBool's value
  deadline,   \* Token.deadline: Option<Instant>, {} for None, {i} for Some(i)
  clock,      \* what Instant::now() reads
  ctor,       \* ghost: the constructor that built the token and its inputs
  pc,         \* each thread's position
  op,         \* each thread's outermost call
  ret,        \* each thread's bool value of was_canceled()/is_canceled()
  now,        \* each thread's clock reading in is_canceled(), {} before it
  result,     \* each thread's check_cancel() value: "Ok", "Err", "none"
  at,         \* ghost: what had happened when the thread's call started
  hist        \* ghost: what has happened to the token so far

vars == <<canceled, deadline, clock, ctor, pc, op, ret, now, result, at, hist>>

NoCall == [cancelDone |-> FALSE, writeDone |-> FALSE, icTrue |-> FALSE,
           trueSeen |-> FALSE, clock |-> 0]

Init ==
  /\ canceled = FALSE
  /\ deadline = {}
  /\ clock = 0
  /\ ctor = [kind |-> "none", created |-> 0, duration |-> 0, instant |-> 0]
  /\ pc = [t \in Threads |-> "idle"]
  /\ op = [t \in Threads |-> "none"]
  /\ ret = [t \in Threads |-> FALSE]
  /\ now = [t \in Threads |-> {}]
  /\ result = [t \in Threads |-> "none"]
  /\ at = [t \in Threads |-> NoCall]
  /\ hist = [cancelStarted |-> FALSE, cancels |-> 0, writeDone |-> FALSE,
             expiredRead |-> FALSE, icTrue |-> FALSE, sawFalse |-> FALSE,
             trueSeen |-> FALSE, latches |-> 0]

\* The monotonic clock advances.
Tick ==
  /\ clock < MaxClock
  /\ clock' = clock + 1
  /\ UNCHANGED <<canceled, deadline, ctor, pc, op, ret, now, result, at, hist>>

(***************************************************************************)
(* Constructors.                                                           *)
(***************************************************************************)
new ==
  /\ ctor.kind = "none"
  /\ canceled' = FALSE
  /\ deadline' = {}
  /\ ctor' = [kind |-> "new", created |-> 0, duration |-> 0, instant |-> 0]
  /\ UNCHANGED <<clock, pc, op, ret, now, result, at, hist>>

\* Mutant: the duration itself is taken as the deadline (no Instant::now()).
with_duration_no_now(duration) ==
  /\ ctor.kind = "none"
  /\ canceled' = FALSE
  /\ deadline' = {duration}
  /\ ctor' = [kind |-> "with_duration", created |-> clock, duration |-> duration,
              instant |-> 0]
  /\ UNCHANGED <<clock, pc, op, ret, now, result, at, hist>>

with_duration(duration) ==
  /\ ctor.kind = "none"
  /\ canceled' = FALSE
  /\ deadline' = {clock + duration}
  /\ ctor' = [kind |-> "with_duration", created |-> clock, duration |-> duration,
              instant |-> 0]
  /\ UNCHANGED <<clock, pc, op, ret, now, result, at, hist>>

with_deadline(i) ==
  /\ ctor.kind = "none"
  /\ canceled' = FALSE
  /\ deadline' = {i}
  /\ ctor' = [kind |-> "with_deadline", created |-> clock, duration |-> 0,
              instant |-> i]
  /\ UNCHANGED <<clock, pc, op, ret, now, result, at, hist>>

(***************************************************************************)
(* Calls and returns.                                                      *)
(***************************************************************************)
\* Thread t calls method o of the shared token.
Call(t, o) ==
  /\ ctor.kind # "none"
  /\ pc[t] = "idle"
  /\ pc' = [pc EXCEPT ![t] = IF o = "check_cancel" THEN "is_canceled" ELSE o]
  /\ op' = [op EXCEPT ![t] = o]
  /\ at' = [at EXCEPT ![t] = [cancelDone |-> hist.cancels >= 1,
                              writeDone |-> hist.writeDone,
                              icTrue |-> hist.icTrue,
                              trueSeen |-> hist.trueSeen,
                              clock |-> clock]]
  /\ hist' = [hist EXCEPT !.cancelStarted = @ \/ o = "cancel"]
  /\ UNCHANGED <<canceled, deadline, clock, ctor, ret, now, result>>

\* Where is_canceled() returns to: its caller, or check_cancel().
AfterIsCanceled(t) == IF op[t] = "check_cancel" THEN "check" ELSE "done"

\* Thread t's call returns to its caller.
Return(t) ==
  /\ pc[t] = "done"
  /\ pc' = [pc EXCEPT ![t] = "idle"]
  /\ op' = [op EXCEPT ![t] = "none"]
  /\ ret' = [ret EXCEPT ![t] = FALSE]
  /\ now' = [now EXCEPT ![t] = {}]
  /\ result' = [result EXCEPT ![t] = "none"]
  /\ at' = [at EXCEPT ![t] = NoCall]
  /\ hist' = [hist EXCEPT
       !.cancels = IF op[t] = "cancel" /\ @ < MaxCancels THEN @ + 1 ELSE @,
       !.icTrue = @ \/ (op[t] = "is_canceled" /\ ret[t]),
       !.trueSeen = @ \/ (op[t] = "is_canceled" /\ ret[t])
                      \/ (op[t] = "check_cancel" /\ result[t] = "Err"),
       !.sawFalse = @ \/ (op[t] \in {"was_canceled", "is_canceled"} /\ ~ret[t])]
  /\ UNCHANGED <<canceled, deadline, clock, ctor>>

(***************************************************************************)
(* cancel(): self.canceled.store(true, Release)                           *)
(***************************************************************************)
\* Mutant: the flag is flipped (fetch_xor(true)) instead of set.
cancel_toggle(t) ==
  /\ pc[t] = "cancel"
  /\ canceled' = ~canceled
  /\ hist' = [hist EXCEPT !.writeDone = @ \/ ~canceled]
  /\ pc' = [pc EXCEPT ![t] = "done"]
  /\ UNCHANGED <<deadline, clock, ctor, op, ret, now, result, at>>

\* Mutant: cancel() waits while another thread is between the clock read
\* and the latch of is_canceled() (a lock shared with is_canceled()).
cancel_wait(t) ==
  /\ pc[t] = "cancel"
  /\ \A u \in Threads \ {t} : pc[u] \notin {"now", "latch"}
  /\ canceled' = TRUE
  /\ hist' = [hist EXCEPT !.writeDone = TRUE]
  /\ pc' = [pc EXCEPT ![t] = "done"]
  /\ UNCHANGED <<deadline, clock, ctor, op, ret, now, result, at>>

cancel(t) ==
  /\ pc[t] = "cancel"
  /\ canceled' = TRUE
  /\ hist' = [hist EXCEPT !.writeDone = TRUE]
  /\ pc' = [pc EXCEPT ![t] = "done"]
  /\ UNCHANGED <<deadline, clock, ctor, op, ret, now, result, at>>

(***************************************************************************)
(* was_canceled(): self.canceled.load(Acquire)                            *)
(***************************************************************************)
\* Mutant: was_canceled() evaluates the deadline as is_canceled() does.
was_canceled_deadline(t) ==
  /\ pc[t] = "was_canceled"
  /\ ret' = [ret EXCEPT ![t] = canceled \/ \E d \in deadline : clock > d]
  /\ pc' = [pc EXCEPT ![t] = "done"]
  /\ UNCHANGED <<canceled, deadline, clock, ctor, op, now, result, at, hist>>

was_canceled(t) ==
  /\ pc[t] = "was_canceled"
  /\ ret' = [ret EXCEPT ![t] = canceled]
  /\ pc' = [pc EXCEPT ![t] = "done"]
  /\ UNCHANGED <<canceled, deadline, clock, ctor, op, now, result, at, hist>>

(***************************************************************************)
(* is_canceled()                                                           *)
(***************************************************************************)
\* Mutant: the deadline instant itself counts as expired (>=).
DeadlineReached(n, d) == n >= d

\* Instant::now() > *deadline
DeadlineExceeded(n, d) == n > d

\* Mutant: is_canceled() looks at the deadline only and never at the flag.
is_canceled_no_flag(t) ==
  /\ pc[t] = "is_canceled"
  /\ IF deadline # {}
       THEN /\ pc' = [pc EXCEPT ![t] = "now"]
            /\ UNCHANGED ret
       ELSE /\ ret' = [ret EXCEPT ![t] = FALSE]
            /\ pc' = [pc EXCEPT ![t] = AfterIsCanceled(t)]
  /\ UNCHANGED <<canceled, deadline, clock, ctor, op, now, result, at, hist>>

\* Mutant: the deadline is tested first, the flag only when there is none.
is_canceled_deadline_first(t) ==
  /\ pc[t] = "is_canceled"
  /\ IF deadline # {}
       THEN /\ pc' = [pc EXCEPT ![t] = "now"]
            /\ UNCHANGED ret
       ELSE /\ ret' = [ret EXCEPT ![t] = canceled]
            /\ pc' = [pc EXCEPT ![t] = AfterIsCanceled(t)]
  /\ UNCHANGED <<canceled, deadline, clock, ctor, op, now, result, at, hist>>

\* if self.was_canceled() { true } else if let Some(deadline) = ... else { false }
is_canceled(t) ==
  /\ pc[t] = "is_canceled"
  /\ IF canceled
       THEN /\ ret' = [ret EXCEPT ![t] = TRUE]
            /\ pc' = [pc EXCEPT ![t] = AfterIsCanceled(t)]
       ELSE IF deadline # {}
         THEN /\ pc' = [pc EXCEPT ![t] = "now"]
              /\ UNCHANGED ret
         ELSE /\ ret' = [ret EXCEPT ![t] = FALSE]
              /\ pc' = [pc EXCEPT ![t] = AfterIsCanceled(t)]
  /\ UNCHANGED <<canceled, deadline, clock, ctor, op, now, result, at, hist>>

\* Mutant: the comparison's value is stored into the flag on both branches
\* (self.canceled.store(Instant::now() > *deadline)).
is_canceled_now_recompute(t) ==
  /\ pc[t] = "now"
  /\ \E d \in deadline :
       /\ now' = [now EXCEPT ![t] = {clock}]
       /\ hist' = [hist EXCEPT !.expiredRead = @ \/ clock > d,
                                !.writeDone = @ \/ clock > d,
                                !.latches = IF @ < MaxLatches THEN @ + 1 ELSE @]
       /\ canceled' = (clock > d)
       /\ ret' = [ret EXCEPT ![t] = clock > d]
       /\ pc' = [pc EXCEPT ![t] = AfterIsCanceled(t)]
  /\ UNCHANGED <<deadline, clock, ctor, op, result, at>>

\* if Instant::now() > *deadline { self.cancel(); true } else { false }:
\* the clock read and the comparison.
is_canceled_now(t) ==
  /\ pc[t] = "now"
  /\ \E d \in deadline :
       /\ now' = [now EXCEPT ![t] = {clock}]
       /\ hist' = [hist EXCEPT !.expiredRead = @ \/ clock > d]
       /\ IF DeadlineExceeded(clock, d)
            THEN /\ pc' = [pc EXCEPT ![t] = "latch"]
                 /\ UNCHANGED ret
            ELSE /\ ret' = [ret EXCEPT ![t] = FALSE]
                 /\ pc' = [pc EXCEPT ![t] = AfterIsCanceled(t)]
  /\ UNCHANGED <<canceled, deadline, clock, ctor, op, result, at>>

\* Mutant: expiry is reported but not latched (no self.cancel()).
is_canceled_latch_no_store(t) ==
  /\ pc[t] = "latch"
  /\ ret' = [ret EXCEPT ![t] = TRUE]
  /\ pc' = [pc EXCEPT ![t] = AfterIsCanceled(t)]
  /\ UNCHANGED <<canceled, deadline, clock, ctor, op, now, result, at, hist>>

\* Mutant: latching also consumes the deadline (deadline.take()).
is_canceled_latch_take(t) ==
  /\ pc[t] = "latch"
  /\ canceled' = TRUE
  /\ deadline' = {}
  /\ hist' = [hist EXCEPT !.writeDone = TRUE,
                          !.latches = IF @ < MaxLatches THEN @ + 1 ELSE @]
  /\ ret' = [ret EXCEPT ![t] = TRUE]
  /\ pc' = [pc EXCEPT ![t] = AfterIsCanceled(t)]
  /\ UNCHANGED <<clock, ctor, op, now, result, at>>

\* { self.cancel(); true }: the store that latches the expiry.
is_canceled_latch(t) ==
  /\ pc[t] = "latch"
  /\ canceled' = TRUE
  /\ hist' = [hist EXCEPT !.writeDone = TRUE,
                          !.latches = IF @ < MaxLatches THEN @ + 1 ELSE @]
  /\ ret' = [ret EXCEPT ![t] = TRUE]
  /\ pc' = [pc EXCEPT ![t] = AfterIsCanceled(t)]
  /\ UNCHANGED <<deadline, clock, ctor, op, now, result, at>>

(***************************************************************************)
(* check_cancel()                                                          *)
(***************************************************************************)
\* Mutant: the two arms of check_cancel() are swapped.
CheckResultSwapped(b) == IF b THEN "Ok" ELSE "Err"

\* if self.is_canceled() { Err(Canceled {}) } else { Ok(()) }
CheckResult(b) == IF b THEN "Err" ELSE "Ok"

check_cancel(t) ==
  /\ pc[t] = "check"
  /\ result' = [result EXCEPT ![t] = CheckResult(ret[t])]
  /\ pc' = [pc EXCEPT ![t] = "done"]
  /\ UNCHANGED <<canceled, deadline, clock, ctor, op, ret, now, at, hist>>

\* The steps thread t takes inside a call, up to its return.
ThreadStep(t) ==
  \/ cancel(t)
  \/ was_canceled(t)
  \/ is_canceled(t)
  \/ is_canceled_now(t)
  \/ is_canceled_latch(t)
  \/ check_cancel(t)
  \/ Return(t)

Methods == {"cancel", "was_canceled", "is_canceled", "check_cancel"}

Next ==
  \/ Tick
  \/ new
  \/ \E d \in Durations : with_duration(d)
  \/ \E i \in Instants : with_deadline(i)
  \/ \E t \in Threads, o \in Methods : Call(t, o)
  \/ \E t \in Threads : cancel(t)
  \/ \E t \in Threads : was_canceled(t)
  \/ \E t \in Threads : is_canceled(t)
  \/ \E t \in Threads : is_canceled_now(t)
  \/ \E t \in Threads : is_canceled_latch(t)
  \/ \E t \in Threads : check_cancel(t)
  \/ \E t \in Threads : Return(t)

Spec == Init /\ [][Next]_vars

(***************************************************************************)
(* tests::threads: the test thread builds a token with a duration, spawns  *)
(* a worker that polls is_canceled() until it is true, joins it and then   *)
(* calls was_canceled().  The clock keeps advancing past the deadline.     *)
(***************************************************************************)
\* No token built yet, the clock reading c, the threads at positions p.
StartAt(c, p) ==
  /\ canceled = FALSE
  /\ deadline = {}
  /\ clock = c
  /\ ctor = [kind |-> "none", created |-> 0, duration |-> 0, instant |-> 0]
  /\ pc = p
  /\ op = [t \in Threads |-> "none"]
  /\ ret = [t \in Threads |-> FALSE]
  /\ now = [t \in Threads |-> {}]
  /\ result = [t \in Threads |-> "none"]
  /\ at = [t \in Threads |-> NoCall]
  /\ hist = [cancelStarted |-> FALSE, cancels |-> 0, writeDone |-> FALSE,
             expiredRead |-> FALSE, icTrue |-> FALSE, sawFalse |-> FALSE,
             trueSeen |-> FALSE, latches |-> 0]

ThreadsInit ==
  StartAt(0, [t \in Threads |-> IF t = "main" THEN "start" ELSE "unborn"])

\* let token = Arc::new(Token::with_duration(..)), with a deadline the
\* clock of the model can pass.
threads_new ==
  /\ pc["main"] = "start"
  /\ \E d \in Durations : clock + d < MaxClock /\ with_duration(d)

\* std::thread::spawn(move || ..), then thr.join() waits
threads_spawn ==
  /\ ctor.kind # "none"
  /\ pc["main"] = "start"
  /\ pc' = [pc EXCEPT !["main"] = "join", !["worker"] = "idle"]
  /\ UNCHANGED <<canceled, deadline, clock, ctor, op, ret, now, result, at, hist>>

\* while !shared.is_canceled() { .. } true: the loop test on the value of
\* the call that has just returned.
threads_while ==
  /\ pc["worker"] = "done"
  /\ pc' = [pc EXCEPT !["worker"] = IF ret["worker"] THEN "exit" ELSE "sleep"]
  /\ op' = [op EXCEPT !["worker"] = "none"]
  /\ ret' = [ret EXCEPT !["worker"] = FALSE]
  /\ now' = [now EXCEPT !["worker"] = {}]
  /\ at' = [at EXCEPT !["worker"] = NoCall]
  /\ hist' = [hist EXCEPT !.icTrue = @ \/ ret["worker"],
                          !.trueSeen = @ \/ ret["worker"],
                          !.sawFalse = @ \/ ~ret["worker"]]
  /\ UNCHANGED <<canceled, deadline, clock, ctor, result>>

\* std::thread::sleep(Duration::from_millis(200))
threads_sleep ==
  /\ pc["worker"] = "sleep"
  /\ pc' = [pc EXCEPT !["worker"] = "idle"]
  /\ UNCHANGED <<canceled, deadline, clock, ctor, op, ret, now, result, at, hist>>

\* thr.join().unwrap() returns once the worker has returned
threads_join ==
  /\ pc["main"] = "join"
  /\ pc["worker"] = "exit"
  /\ pc' = [pc EXCEPT !["main"] = "idle"]
  /\ UNCHANGED <<canceled, deadline, clock, ctor, op, ret, now, result, at, hist>>

\* assert_eq!(true, token.was_canceled()): the test ends after the call
threads_assert ==
  /\ pc["main"] = "done"
  /\ pc' = [pc EXCEPT !["main"] = IF ret["main"] THEN "end" ELSE "panic"]
  /\ UNCHANGED <<canceled, deadline, clock, ctor, op, ret, now, result, at, hist>>

ThreadsWorker ==
  \/ Call("worker", "is_canceled")
  \/ is_canceled("worker")
  \/ is_canceled_now("worker")
  \/ is_canceled_latch("worker")
  \/ threads_while
  \/ threads_sleep

ThreadsMain ==
  \/ threads_new
  \/ threads_spawn
  \/ threads_join
  \/ Call("main", "was_canceled")
  \/ was_canceled("main")
  \/ threads_assert

ThreadsNext ==
  \/ Tick
  \/ ThreadsWorker
  \/ ThreadsMain

\* The clock keeps advancing and both threads are scheduled.
ThreadsSpec ==
  /\ ThreadsInit
  /\ [][ThreadsNext]_vars
  /\ WF_vars(Tick)
  /\ WF_vars(ThreadsWorker)
  /\ WF_vars(ThreadsMain)

(***************************************************************************)
(* tests::deadline: one thread builds a token with a duration of 1 s and   *)
(* polls is_canceled() every 200 ms, asserting before each sleep that 2 s  *)
(* have not passed.  Instants are in milliseconds; time passes in the      *)
(* sleeps only, and the polling goes on after the first true until the     *)
(* hard deadline.                                                          *)
(***************************************************************************)
TestDurationMs == 1000
HardDeadlineMs == 2000
SleepMs == 200
MaxStart == 2

StartInstants == {k * SleepMs : k \in 0..MaxStart}

DeadlineTestInit ==
  \E c \in StartInstants :
    StartAt(c, [t \in Threads |-> IF t = "main" THEN "idle" ELSE "unborn"])

\* let hard_deadline = Instant::now() + Duration::new(2, 0), read at the
\* instant the token is built.
hard_deadline == ctor.created + HardDeadlineMs

\* let token = Token::with_duration(Duration::new(1, 0))
deadline_test_new == with_duration(TestDurationMs)

\* if token.is_canceled() { break; }: the test on the value of the call
\* that has just returned.
deadline_test_if ==
  /\ pc["main"] = "done"
  /\ pc' = [pc EXCEPT !["main"] = IF ret["main"] THEN "break" ELSE "assert"]
  /\ op' = [op EXCEPT !["main"] = "none"]
  /\ ret' = [ret EXCEPT !["main"] = FALSE]
  /\ now' = [now EXCEPT !["main"] = {}]
  /\ at' = [at EXCEPT !["main"] = NoCall]
  /\ hist' = [hist EXCEPT !.icTrue = @ \/ ret["main"],
                          !.trueSeen = @ \/ ret["main"],
                          !.sawFalse = @ \/ ~ret["main"]]
  /\ UNCHANGED <<canceled, deadline, clock, ctor, result>>

\* assert!(Instant::now() < hard_deadline)
deadline_test_assert ==
  /\ pc["main"] = "assert"
  /\ pc' = [pc EXCEPT !["main"] = IF clock < hard_deadline THEN "sleep" ELSE "panic"]
  /\ UNCHANGED <<canceled, deadline, clock, ctor, op, ret, now, result, at, hist>>

\* std::thread::sleep(Duration::from_millis(200))
deadline_test_sleep ==
  /\ pc["main"] = "sleep"
  /\ clock' = clock + SleepMs
  /\ pc' = [pc EXCEPT !["main"] = "idle"]
  /\ UNCHANGED <<canceled, deadline, ctor, op, ret, now, result, at, hist>>

\* After the loop has ended the token is polled on, at the same period,
\* until the hard deadline.
deadline_test_poll_on ==
  /\ pc["main"] = "break"
  /\ clock < hard_deadline
  /\ pc' = [pc EXCEPT !["main"] = "sleep"]
  /\ UNCHANGED <<canceled, deadline, clock, ctor, op, ret, now, result, at, hist>>

DeadlineTestNext ==
  \/ deadline_test_new
  \/ Call("main", "is_canceled")
  \/ is_canceled("main")
  \/ is_canceled_now("main")
  \/ is_canceled_latch("main")
  \/ deadline_test_if
  \/ deadline_test_assert
  \/ deadline_test_sleep
  \/ deadline_test_poll_on

DeadlineTestSpec == DeadlineTestInit /\ [][DeadlineTestNext]_vars

(***************************************************************************)
(* Shorthands for the properties.                                          *)
(***************************************************************************)
Done(t, o) == pc[t] = "done" /\ op[t] = o

Expired == \E d \in deadline : clock > d

\* What a finished query call told its caller: TRUE for true / Err(Canceled).
Observed(t) == IF op[t] = "check_cancel" THEN result[t] = "Err" ELSE ret[t]

Queries == {"was_canceled", "is_canceled", "check_cancel"}

(***************************************************************************)
(* C1: once the canceled flag is true it is true in every later state; no  *)
(* step of any method writes false to it.                                  *)
(***************************************************************************)
C1_FlagMonotonic == [][canceled => canceled']_vars

\* A second cancel() has stored into a flag that was already true.
C1_Witness ==
  \E t \in Threads : Done(t, "cancel") /\ at[t].writeDone /\ canceled

(***************************************************************************)
(* C2: on a token built by new(), a was_canceled()/is_canceled() call that *)
(* completes before any cancel() has started returns false, and one that   *)
(* starts after a cancel() has completed returns true, whatever the clock. *)
(***************************************************************************)
C2_NoDeadlineFlag ==
  \A t \in Threads :
    (ctor.kind = "new" /\ (Done(t, "was_canceled") \/ Done(t, "is_canceled"))) =>
      /\ ~hist.cancelStarted => ret[t] = FALSE
      /\ at[t].cancelDone => ret[t] = TRUE

\* Some query returned false earlier; now both queries, started after a
\* completed cancel(), have their value, with the clock advanced.
C2_Witness ==
  /\ ctor.kind = "new" /\ hist.sawFalse /\ clock > 0
  /\ \E t, u \in Threads :
       /\ Done(t, "was_canceled") /\ at[t].cancelDone /\ ret[t]
       /\ Done(u, "is_canceled") /\ at[u].cancelDone /\ ret[u]

(***************************************************************************)
(* C3 as stated: on a with_duration(D) token never explicitly canceled,    *)
(* is_canceled() returns false while less than D has elapsed and true from *)
(* the moment D has elapsed (elapsed >= D).                                *)
(***************************************************************************)
C3_TrueFromDeadline ==
  \A t \in Threads :
    (ctor.kind = "with_duration" /\ ~hist.cancelStarted /\ Done(t, "is_canceled")) =>
      /\ clock - ctor.created < ctor.duration => ret[t] = FALSE
      /\ at[t].clock - ctor.created >= ctor.duration => ret[t] = TRUE

(***************************************************************************)
(* C3 amended: on a with_duration(D) token never explicitly canceled, an   *)
(* is_canceled() call that completes while at most D has elapsed returns   *)
(* false, and one that starts when more than D has elapsed returns true.   *)
(***************************************************************************)
C3_TrueAfterDeadline ==
  \A t \in Threads :
    (ctor.kind = "with_duration" /\ ~hist.cancelStarted /\ Done(t, "is_canceled")) =>
      /\ clock - ctor.created <= ctor.duration => ret[t] = FALSE
      /\ at[t].clock - ctor.created > ctor.duration => ret[t] = TRUE

\* One call read the clock exactly at the deadline and got false; another,
\* started after the deadline, got true.
C3_Witness ==
  /\ ctor.kind = "with_duration" /\ ~hist.cancelStarted
  /\ \E t, u \in Threads :
       /\ Done(t, "is_canceled") /\ now[t] = deadline /\ ~ret[t]
       /\ Done(u, "is_canceled") /\ at[u].clock - ctor.created > ctor.duration
       /\ ret[u]

(***************************************************************************)
(* C4: check_cancel() returns Ok(()) exactly when its is_canceled()        *)
(* returned false and Err(Canceled) exactly when it returned true; after a *)
(* completed cancel() it returns Err(Canceled); and its own step leaves    *)
(* the token as is_canceled() left it.                                     *)
(***************************************************************************)
C4_CheckAgrees ==
  /\ [](\A t \in Threads : Done(t, "check_cancel") =>
          /\ result[t] = "Err" <=> ret[t]
          /\ result[t] = "Ok" <=> ~ret[t]
          /\ at[t].cancelDone => result[t] = "Err")
  /\ [][\A t \in Threads : (pc[t] = "check" /\ pc'[t] = "done") =>
          UNCHANGED <<canceled, deadline>>]_vars

\* On a token built by new(), one check_cancel() that started before any
\* store has yielded Ok and another, started after a completed cancel(),
\* has yielded Err.
C4_Witness ==
  /\ ctor.kind = "new"
  /\ \E t, u \in Threads :
       /\ Done(t, "check_cancel") /\ ~ret[t] /\ result[t] = "Ok"
       /\ Done(u, "check_cancel") /\ at[u].cancelDone /\ result[u] = "Err"

(***************************************************************************)
(* C5: once a store of true to the flag has completed (cancel() or the     *)
(* deadline latch in is_canceled()), every was_canceled(), is_canceled()   *)
(* and check_cancel() call that starts afterwards, on any thread, observes *)
(* the token as canceled.                                                  *)
(***************************************************************************)
C5_WriteVisible ==
  \A t \in Threads :
    (pc[t] = "done" /\ op[t] \in Queries /\ at[t].writeDone) => Observed(t)

\* The latch of one thread's is_canceled() is seen by the other thread's
\* was_canceled(), with no cancel() at all.
C5_Witness ==
  /\ ~hist.cancelStarted
  /\ \E t, u \in Threads :
       /\ t # u
       /\ Done(t, "is_canceled") /\ now[t] # {} /\ ret[t]
       /\ Done(u, "was_canceled") /\ at[u].writeDone /\ ret[u]

(***************************************************************************)
(* C6: after N >= 1 cancel() calls, sequential or concurrent, the flag is  *)
(* true: a cancel() that has done its store leaves the flag true, also on  *)
(* an already canceled token.                                              *)
(***************************************************************************)
C6_CancelIdempotent ==
  /\ hist.cancels >= 1 => canceled
  /\ \A t \in Threads : Done(t, "cancel") => canceled

\* Two cancel() calls have completed and two more, running concurrently,
\* have stored.
C6_Witness ==
  /\ hist.cancels >= 2 /\ canceled
  /\ \A t \in Threads : Done(t, "cancel")

(***************************************************************************)
(* C7: once an is_canceled() call has returned true, every is_canceled()   *)
(* call that starts afterwards returns true.                               *)
(***************************************************************************)
C7_IsCanceledMonotonic ==
  \A t \in Threads : (Done(t, "is_canceled") /\ at[t].icTrue) => ret[t]

\* A later is_canceled(), started before the deadline and after an earlier
\* one returned true, has its value.
C7_Witness ==
  \E t \in Threads :
    Done(t, "is_canceled") /\ at[t].icTrue /\ ret[t] /\ deadline # {} /\ ~Expired

(***************************************************************************)
(* C8: an is_canceled() that read the flag as false and then read a clock  *)
(* value strictly after the set deadline sets the flag and returns true.   *)
(***************************************************************************)
C8_DeadlineLatched ==
  \A t \in Threads :
    (pc[t] \in {"check", "done"} /\ \E n \in now[t], d \in deadline : n > d) =>
      ret[t] /\ canceled

\* The latch happened with no cancel() ever started.
C8_Witness ==
  \E t \in Threads :
    /\ Done(t, "is_canceled") /\ ~hist.cancelStarted
    /\ \E n \in now[t], d \in deadline : n > d
    /\ ret[t] /\ canceled

(***************************************************************************)
(* C9: was_canceled() returns the flag's current value, changes nothing of *)
(* the token and reads neither clock nor deadline: while no cancel() has   *)
(* started and no is_canceled()/check_cancel() has read the clock after    *)
(* the deadline, it returns false, also after the deadline has passed.     *)
(***************************************************************************)
C9_WasCanceledPassive ==
  /\ [](\A t \in Threads :
          (Done(t, "was_canceled") /\ ~hist.cancelStarted /\ ~hist.expiredRead)
            => ret[t] = FALSE)
  /\ [][\A t \in Threads : (pc[t] = "was_canceled" /\ pc'[t] = "done") =>
          /\ ret'[t] = canceled
          /\ now'[t] = {}
          /\ UNCHANGED <<canceled, deadline>>]_vars

\* Both threads called was_canceled() after the deadline had passed and got
\* false.
C9_Witness ==
  /\ ~hist.cancelStarted /\ ~hist.expiredRead
  /\ \A t \in Threads :
       /\ Done(t, "was_canceled") /\ ~ret[t]
       /\ \E d \in deadline : at[t].clock > d

(***************************************************************************)
(* C10: the flag is true only if a cancel() has started or an              *)
(* is_canceled()/check_cancel() has read a clock value strictly after a    *)
(* set deadline; until then was_canceled() returns false.                  *)
(***************************************************************************)
C10_NoSpuriousCancel ==
  /\ canceled => (hist.cancelStarted \/ hist.expiredRead)
  /\ \A t \in Threads :
       (Done(t, "was_canceled") /\ ret[t]) =>
         (hist.cancelStarted \/ hist.expiredRead)

\* A query read the clock exactly at the deadline and the flag is still
\* false for a was_canceled() that ran afterwards.
C10_Witness ==
  /\ ~hist.cancelStarted /\ ~hist.expiredRead /\ ~canceled
  /\ \E t, u \in Threads :
       /\ Done(t, "is_canceled") /\ now[t] = deadline /\ now[t] # {}
       /\ Done(u, "was_canceled") /\ ~ret[u]

(***************************************************************************)
(* C11: every constructor returns a token whose flag is false; new() sets  *)
(* no deadline, with_deadline(i) sets the deadline i, also when i is in    *)
(* the past (was_canceled() is then still false), and with_duration(d)     *)
(* sets the deadline to the clock reading at construction plus d.          *)
(***************************************************************************)
C11_Constructors ==
  /\ [][(ctor.kind = "none" /\ ctor'.kind # "none") =>
          /\ canceled' = FALSE
          /\ ctor'.kind = "new" => deadline' = {}
          /\ ctor'.kind = "with_deadline" => deadline' = {ctor'.instant}
          /\ ctor'.kind = "with_duration" => deadline' = {clock + ctor'.duration}]_vars
  /\ [](\A t \in Threads :
          (/\ Done(t, "was_canceled")
           /\ ctor.kind = "with_deadline" /\ ctor.created > ctor.instant
           /\ ~hist.cancelStarted /\ ~hist.expiredRead) => ~ret[t])

\* with_deadline(i) ran with i already in the past, and a was_canceled()
\* on the new token got false.
C11_Witness ==
  /\ ctor.kind = "with_deadline" /\ ctor.created > ctor.instant
  /\ deadline = {ctor.instant} /\ ~hist.cancelStarted /\ ~hist.expiredRead
  /\ \E t \in Threads : Done(t, "was_canceled") /\ ~ret[t]

(***************************************************************************)
(* C12: the deadline is fixed at construction: no cancel(), was_canceled() *)
(* is_canceled() or check_cancel() step changes it, and the store of       *)
(* cancel() changes nothing of the token but the flag.                     *)
(***************************************************************************)
C12_DeadlineFixed ==
  /\ [][ctor.kind # "none" => deadline' = deadline]_vars
  /\ [][\A t \in Threads : (pc[t] = "cancel" /\ pc'[t] = "done") =>
          /\ canceled'
          /\ UNCHANGED <<deadline, clock, ret, now, result>>]_vars

\* After a completed cancel() and a latching is_canceled() by the other
\* thread the deadline is the one with_duration() computed.
C12_Witness ==
  /\ ctor.kind = "with_duration" /\ deadline = {ctor.created + ctor.duration}
  /\ hist.cancels >= 1 /\ hist.latches >= 1
  /\ \E t \in Threads : Done(t, "check_cancel") /\ result[t] = "Err"

(***************************************************************************)
(* C15: no operation blocks: a thread inside a call always has a step it   *)
(* can take, whatever the other threads are doing, and every step moves it *)
(* forward through the call, so a call ends within five of its own steps.  *)
(***************************************************************************)
Rank(p) ==
  CASE p = "idle" -> 0
    [] p \in {"cancel", "was_canceled", "is_canceled"} -> 1
    [] p = "now" -> 2
    [] p = "latch" -> 3
    [] p = "check" -> 4
    [] p = "done" -> 5

C15_NonBlocking ==
  /\ [](\A t \in Threads : pc[t] # "idle" => ENABLED ThreadStep(t))
  /\ [][\A t \in Threads : (pc'[t] # pc[t] /\ pc[t] # "idle") =>
          IF pc[t] = "done" THEN pc'[t] = "idle"
                            ELSE Rank(pc'[t]) > Rank(pc[t])]_vars

\* A cancel() is about to store while the other thread is between the
\* clock read and the latch of its is_canceled().
C15_Witness ==
  \E t, u \in Threads :
    pc[t] = "cancel" /\ pc[u] = "latch" /\ hist.cancels >= 1

(***************************************************************************)
(* C16 as stated: on a token with a deadline and no explicit cancel(),     *)
(* exactly one is_canceled() call performs the latching store; every other *)
(* call takes the already-canceled path.                                   *)
(***************************************************************************)
C16_OneLatchingCall == ~hist.cancelStarted => hist.latches <= 1

(***************************************************************************)
(* C16 amended: every is_canceled() call that starts after a store of true *)
(* has completed returns true on the already-canceled path, reading no     *)
(* clock and storing nothing; calls that overlap the first latching call   *)
(* can each latch too, at most one store per thread, and after any latch   *)
(* the flag is true.                                                       *)
(***************************************************************************)
C16_LatchThenFastPath ==
  /\ hist.latches <= Cardinality(Threads)
  /\ hist.latches >= 1 => canceled
  /\ \A t \in Threads :
       (op[t] = "is_canceled" /\ at[t].writeDone) =>
         /\ pc[t] \notin {"now", "latch"}
         /\ now[t] = {}
         /\ pc[t] = "done" => ret[t]

\* Both threads latched in overlapping calls; a call started afterwards has
\* returned true without a clock reading.
C16_Witness ==
  /\ ~hist.cancelStarted /\ hist.latches = 2
  /\ \E t \in Threads :
       Done(t, "is_canceled") /\ at[t].writeDone /\ ret[t] /\ now[t] = {}

(***************************************************************************)
(* C17: is_canceled() stores to the flag only after it loaded the flag as  *)
(* false, with a deadline set and a clock reading strictly after it; with  *)
(* the flag loaded true it returns true at once, with the deadline not     *)
(* passed or absent it returns false, in each case changing nothing of the *)
(* token.                                                                  *)
(***************************************************************************)
C17_WritesOnlyOnExpiry ==
  [][/\ hist'.latches # hist.latches =>
          \E t \in Threads : pc[t] = "latch" /\ pc'[t] # "latch"
     /\ \A t \in Threads :
          /\ (pc[t] = "is_canceled" /\ pc'[t] # pc[t]) =>
               /\ UNCHANGED <<canceled, deadline>>
               /\ hist'.latches = hist.latches
               /\ canceled =>
                    ret'[t] /\ pc'[t] = AfterIsCanceled(t) /\ now'[t] = {}
               /\ (~canceled /\ deadline = {}) =>
                    ~ret'[t] /\ pc'[t] = AfterIsCanceled(t)
               /\ (~canceled /\ deadline # {}) => pc'[t] = "now"
          /\ (pc[t] = "now" /\ pc'[t] # pc[t]) =>
               /\ UNCHANGED <<canceled, deadline>>
               /\ hist'.latches = hist.latches
               /\ IF \E d \in deadline : clock > d
                    THEN pc'[t] = "latch"
                    ELSE ~ret'[t] /\ pc'[t] = AfterIsCanceled(t)
          /\ (pc[t] = "latch" /\ pc'[t] # pc[t]) =>
               /\ canceled' /\ ret'[t] /\ deadline' = deadline
               /\ \E n \in now[t], d \in deadline : n > d]_vars

\* One call latched after reading the clock; the other, finding the flag
\* true, returned true without a clock reading.
C17_Witness ==
  /\ hist.latches = 1 /\ ~hist.cancelStarted
  /\ \E t, u \in Threads :
       /\ Done(t, "is_canceled") /\ now[t] # {} /\ ret[t]
       /\ Done(u, "is_canceled") /\ now[u] = {} /\ ret[u]

(***************************************************************************)
(* C18: when is_canceled() has the value true or check_cancel() the value  *)
(* Err(Canceled), the flag is true when the call returns, and a            *)
(* was_canceled() that starts after such a return gets true.               *)
(***************************************************************************)
C18_ResultImpliesState ==
  \A t \in Threads :
    /\ (pc[t] = "done" /\ op[t] \in {"is_canceled", "check_cancel"} /\ Observed(t))
         => canceled
    /\ (Done(t, "was_canceled") /\ at[t].trueSeen) => ret[t]

\* check_cancel() yields Err by the deadline alone, and a was_canceled()
\* started after an earlier true/Err return gets true.
C18_Witness ==
  /\ ~hist.cancelStarted
  /\ \E t, u \in Threads :
       /\ Done(t, "check_cancel") /\ result[t] = "Err" /\ canceled
       /\ Done(u, "was_canceled") /\ at[u].trueSeen /\ ret[u]

(***************************************************************************)
(* C19 as stated: whenever is_canceled() returns false the flag is false   *)
(* at the moment the call returns, also under a concurrent cancel().       *)
(***************************************************************************)
C19_FalseIsFresh ==
  \A t \in Threads : (Done(t, "is_canceled") /\ ~ret[t]) => ~canceled

(***************************************************************************)
(* C19 amended: whenever is_canceled() returns false, no store of true had *)
(* completed when the call started; the flag can be true when the call     *)
(* returns only through a cancel() or another thread's latch that stored   *)
(* while the call was running.                                             *)
(***************************************************************************)
C19_FalseWasFreshAtStart ==
  \A t \in Threads :
    (Done(t, "is_canceled") /\ ~ret[t]) =>
      /\ ~at[t].writeDone
      /\ canceled => (hist.cancelStarted \/ hist.latches >= 1)

\* A cancel() started and completed while an is_canceled() that is about
\* to return false was running.
C19_Witness ==
  \E t \in Threads :
    /\ Done(t, "is_canceled") /\ ~ret[t] /\ canceled
    /\ ~at[t].cancelDone /\ hist.cancels >= 1 /\ hist.latches = 0

(***************************************************************************)
(* C13: with a token of finite duration shared by two threads, the clock   *)
(* advancing and the threads scheduled fairly, the worker that polls       *)
(* is_canceled() until it is true terminates though nobody calls cancel(), *)
(* and the was_canceled() of the creating thread after the join is true.   *)
(***************************************************************************)
C13_WorkerTerminates ==
  /\ (pc["worker"] = "idle") ~> (pc["worker"] = "exit")
  /\ (pc["worker"] = "exit") ~> (pc["main"] = "end")
  /\ [](pc["main"] # "panic")
  /\ [](Done("main", "was_canceled") => (ret["main"] /\ pc["worker"] = "exit"))

\* The worker has returned, no cancel() was ever called, and the creating
\* thread's was_canceled() after the join is true.
C13_Witness ==
  /\ pc["worker"] = "exit" /\ ~hist.cancelStarted /\ hist.sawFalse
  /\ Done("main", "was_canceled") /\ ret["main"]

(***************************************************************************)
(* C14: a token of duration D = 1 s, never canceled, polled every          *)
(* p = 200 ms from its construction: the first poll that returns true is   *)
(* at elapsed time t with D <= t <= D + p, before the 2 s hard limit the   *)
(* test asserts, and no later poll returns false.                          *)
(***************************************************************************)
C14_PollBounded ==
  LET t == clock - ctor.created
  IN /\ pc["main"] # "panic"
     /\ (Done("main", "is_canceled") /\ ret["main"] /\ ~hist.icTrue) =>
          /\ ctor.duration <= t
          /\ t <= ctor.duration + SleepMs
          /\ t < HardDeadlineMs
     /\ (Done("main", "is_canceled") /\ hist.icTrue) => ret["main"]

\* The poll at D + p is the first to return true and a poll before it
\* returned false; and a later poll has returned true again.
C14_Witness ==
  /\ hist.sawFalse /\ hist.icTrue /\ hist.latches = 1
  /\ Done("main", "is_canceled") /\ ret["main"] /\ now["main"] = {}
  /\ clock - ctor.created > ctor.duration + SleepMs
====
